---- MODULE Spec2Model ----
(***************************************************************************)
(* Model of extract_quiz_data (src/html_to_json_parser.py).                *)
(*                                                                         *)
(* A text is a sequence of characters.  A character is a one-element       *)
(* string, except that a run of letters that matters only through the      *)
(* keywords it contains is kept as one chunk ("Match", "order", "w"), and  *)
(* the entity "&nbsp;" and the character it decodes to ("NBSP") are one    *)
(* chunk each.  A document is the sequence of the children of the root;    *)
(* a paragraph holds a sequence of inline children.                        *)
(***************************************************************************)
EXTENDS Integers, Sequences, FiniteSets, TLC

VARIABLES doc, pc, all_elements, i, questions, scans

vars == <<doc, pc, all_elements, i, questions, scans>>

-----------------------------------------------------------------------------
(* Bounds *)

MaxLen == 3

-----------------------------------------------------------------------------
(* Texts *)

Digits == {"1", "2", "5"}

WhiteSpace == {" ", "\n", "NBSP"}

IsSpace(c) == c \in WhiteSpace

RECURSIVE JoinWith(_, _)
JoinWith(parts, sep) ==
    IF parts = <<>> THEN <<>>
    ELSE IF Len(parts) = 1 THEN parts[1]
    ELSE parts[1] \o sep \o JoinWith(Tail(parts), sep)

RECURSIVE LStrip(_)
LStrip(s) ==
    IF s # <<>> /\ IsSpace(s[1]) THEN LStrip(Tail(s)) ELSE s

RECURSIVE RStrip(_)
RStrip(s) ==
    IF s # <<>> /\ IsSpace(s[Len(s)]) THEN RStrip(SubSeq(s, 1, Len(s) - 1)) ELSE s

Strip(s) == LStrip(RStrip(s))

Unescape(s) == [k \in 1..Len(s) |-> IF s[k] = "&nbsp;" THEN "NBSP" ELSE s[k]]

\* re.sub(r'\s+', ' ', text): every maximal run of white space becomes one blank
RECURSIVE CollapseSpace(_)
CollapseSpace(s) ==
    IF s = <<>> THEN <<>>
    ELSE IF IsSpace(s[1])
         THEN <<" ">> \o CollapseSpace(LStrip(s))
         ELSE <<s[1]>> \o CollapseSpace(Tail(s))

clean_text(text) ==
    IF text = <<>> THEN <<>>
    ELSE Strip(CollapseSpace(Unescape(text)))

\* the length of the longest prefix of s made of digits
RECURSIVE DigitPrefix(_)
DigitPrefix(s) ==
    IF s # <<>> /\ s[1] \in Digits THEN 1 + DigitPrefix(Tail(s)) ELSE 0

\* re.compile(r'^\d+\.\s+').match(s)
question_pattern(s) ==
    LET d == DigitPrefix(s) IN
        /\ d >= 1
        /\ Len(s) >= d + 2
        /\ s[d + 1] = "."
        /\ IsSpace(s[d + 2])

\* re.match(r'^\d+\.\s*$', s)
bare_ordinal(s) ==
    LET d == DigitPrefix(s) IN
        /\ d >= 1
        /\ Len(s) >= d + 1
        /\ s[d + 1] = "."
        /\ \A k \in (d + 2)..Len(s) : IsSpace(s[k])

LowerChar(c) == IF c = "Match" THEN "match" ELSE c

Lower(s) == [k \in 1..Len(s) |-> LowerChar(s[k])]

\* the keywords that occur in a (lower-case) chunk
ChunkKeywords(c) ==
    IF c = "match" THEN {"match"}
    ELSE IF c = "order" THEN {"order"}
    ELSE {}

SpecialKeywords ==
    {"match", "question as presented", "refer to the exhibit",
     "place the options in the following order"}

FallbackKeywords == {"match", "order", "drag and drop", "sequence"}

\* any(keyword in text for keyword in keywords)
ContainsAny(text, keywords) ==
    \E k \in 1..Len(text) : ChunkKeywords(text[k]) \cap keywords # {}

\* raw_text.split('\n')
RECURSIVE SplitLines(_)
SplitLines(s) ==
    IF \E k \in 1..Len(s) : s[k] = "\n"
    THEN LET k == CHOOSE k \in 1..Len(s) :
                      s[k] = "\n" /\ \A m \in 1..(k - 1) : s[m] # "\n"
         IN <<SubSeq(s, 1, k - 1)>> \o SplitLines(SubSeq(s, k + 1, Len(s)))
    ELSE <<s>>

NonEmptyText(s) == s # <<>>

\* '\n'.join([line.strip() for line in raw_text.split('\n') if line.strip()])
PreText(raw_text) ==
    LET stripped == [k \in 1..Len(SplitLines(raw_text)) |-> Strip(SplitLines(raw_text)[k])]
    IN JoinWith(SelectSeq(stripped, NonEmptyText), <<"\n">>)

-----------------------------------------------------------------------------
(* The element tree *)

Emphasis == {"strong", "b"}

P(kids) == [name |-> "p", kids |-> kids]

Em(tag, text) == [name |-> tag, text |-> text]

Img(src) == [name |-> "img", src |-> src]

Li(text, colored, cls) == [text |-> text, colored |-> colored, cls |-> cls]

Ul(items) == [name |-> "ul", items |-> items]

Pre(text) == [name |-> "pre", text |-> text]

Div == [name |-> "div"]

TextNode == [name |-> "#text"]

\* An element is named by its place: child `top` of the root, and, inside a
\* paragraph, child `kid` of that paragraph (0 for the root's child itself).
Ref(top, kid) == [top |-> top, kid |-> kid]

None == Ref(0, 0)

Node(e) == IF e.kid = 0 THEN doc[e.top] ELSE doc[e.top].kids[e.kid]

RECURSIVE Flatten(_)
Flatten(ss) == IF ss = <<>> THEN <<>> ELSE ss[1] \o Flatten(Tail(ss))

\* the elements among the children `kid0+1 ..` of paragraph `top` whose name is in `names`
RECURSIVE KidsNamed(_, _, _)
KidsNamed(top, kid0, names) ==
    IF kid0 >= Len(doc[top].kids) THEN <<>>
    ELSE (IF doc[top].kids[kid0 + 1].name \in names THEN <<Ref(top, kid0 + 1)>> ELSE <<>>)
         \o KidsNamed(top, kid0 + 1, names)

\* soup.find_all(names), in document order
find_all(names) ==
    Flatten([k \in 1..Len(doc) |->
        (IF doc[k].name \in names THEN <<Ref(k, 0)>> ELSE <<>>)
        \o (IF doc[k].name = "p" THEN KidsNamed(k, 0, names) ELSE <<>>)])

\* element.find_all(names) of a paragraph
p_find_all(p, names) == KidsNamed(p.top, 0, names)

\* element.find(name): the first descendant of that name, or None
find(p, name) ==
    IF p_find_all(p, {name}) = <<>> THEN None ELSE p_find_all(p, {name})[1]

\* element.find('strong') or element.find('b')
strong_or_b(p) == IF find(p, "strong") # None THEN find(p, "strong") ELSE find(p, "b")

\* tag.find_parent('p')
find_parent_p(tag) == IF tag.kid = 0 THEN None ELSE Ref(tag.top, 0)

\* tag.get_text().strip()
stripped_text(tag) == Strip(Node(tag).text)

\* img_tag.get('src') of the first image of a paragraph ("" when there is none)
p_img_src(p) == IF find(p, "img") = None THEN "" ELSE Node(find(p, "img")).src

\* the siblings after e, text nodes included
RECURSIVE SiblingsFrom(_, _)
SiblingsFrom(e, n) ==
    IF e.kid = 0
    THEN IF e.top + n > Len(doc) THEN <<>>
         ELSE <<Ref(e.top + n, 0)>> \o SiblingsFrom(e, n + 1)
    ELSE IF e.kid + n > Len(doc[e.top].kids) THEN <<>>
         ELSE <<Ref(e.top, e.kid + n)>> \o SiblingsFrom(e, n + 1)

IsTag(e) == Node(e).name # "#text"

\* the chain element.find_next_sibling(), .find_next_sibling(), ...
next_sibling_tags(e) == SelectSeq(SiblingsFrom(e, 1), IsTag)

\* element.next_sibling
next_sibling(e) == IF SiblingsFrom(e, 1) = <<>> THEN None ELSE SiblingsFrom(e, 1)[1]

-----------------------------------------------------------------------------
(* Anchor discovery *)

\* the test of the loop over siblings at lines 79-88 for one tag
malformed_number_tag(tag) ==
    LET siblings == p_find_all(find_parent_p(tag), Emphasis) IN
        \E n \in 1..Len(siblings) :
            /\ bare_ordinal(stripped_text(siblings[n]))
            /\ n < Len(siblings)
            /\ Node(tag) = Node(siblings[n])

is_standalone(tag) ==
    /\ question_pattern(stripped_text(tag))
    /\ \/ find_parent_p(tag) = None
       \/ /\ Len(p_find_all(find_parent_p(tag), Emphasis)) > 1
          /\ malformed_number_tag(tag)

all_paragraphs == find_all({"p"})

standalone_tags == SelectSeq(find_all(Emphasis), is_standalone)

combined_elements == all_paragraphs \o standalone_tags

-----------------------------------------------------------------------------
(* Per-anchor extraction *)

Str(v) == [type |-> "str", value |-> v]

List(v) == [type |-> "list", value |-> v]

Unknown == <<"Unknown">>

SeeImage == <<"See image for the answer">>

question_tag_of(element) ==
    IF Node(element).name = "p" THEN strong_or_b(element)
    ELSE IF Node(element).name \in Emphasis THEN element
    ELSE None

is_question(question_tag) ==
    /\ question_tag # None
    /\ \/ question_pattern(stripped_text(question_tag))
       \/ bare_ordinal(stripped_text(question_tag))

Min(a, b) == IF a < b THEN a ELSE b

\* the loop "for j in range(i + 1, min(i + 3, len(all_elements)))", from j on
RECURSIVE nearby_img(_, _, _)
nearby_img(elements, idx, j) ==
    IF j >= Min(idx + 3, Len(elements)) THEN ""
    ELSE IF Node(elements[j + 1]).name = "p" /\ p_img_src(elements[j + 1]) # ""
         THEN p_img_src(elements[j + 1])
         ELSE nearby_img(elements, idx, j + 1)

\* the value of question_data['img'], "" when the key is not set
img_of(elements, idx) ==
    IF Node(elements[idx + 1]).name = "p" /\ p_img_src(elements[idx + 1]) # ""
    THEN p_img_src(elements[idx + 1])
    ELSE nearby_img(elements, idx, idx + 1)

is_marked(li) == li.colored \/ li.cls

\* li_choices without the test "if choice_text"
li_choices_keep_empty(items) == [n \in 1..Len(items) |-> clean_text(items[n].text)]

\* the loop over li_elements: the texts appended to choices
RECURSIVE li_choices(_)
li_choices(items) ==
    IF items = <<>> THEN <<>>
    ELSE (IF clean_text(items[1].text) # <<>> THEN <<clean_text(items[1].text)>> ELSE <<>>)
         \o li_choices(Tail(items))

\* the loop over li_elements: the texts appended to correct_answers
RECURSIVE li_correct(_)
li_correct(items) ==
    IF items = <<>> THEN <<>>
    ELSE (IF clean_text(items[1].text) # <<>> /\ is_marked(items[1])
          THEN <<clean_text(items[1].text)>> ELSE <<>>)
         \o li_correct(Tail(items))

\* "if not pre_content": the first pre tag whose text is not blank is captured
capture_pre(pre_content, raw_text) ==
    IF pre_content = <<>> THEN PreText(raw_text) ELSE pre_content

\* a paragraph met by the scan begins the next question
begins_question(p) ==
    /\ strong_or_b(p) # None
    /\ question_pattern(stripped_text(strong_or_b(p)))

\* the while loop over current_element, entered with the siblings left to visit
RECURSIVE forward_scan(_, _)
forward_scan(siblings, acc) ==
    IF siblings = <<>> THEN acc
    ELSE LET current_element == siblings[1] IN
        IF Node(current_element).name = "ul"
        THEN [acc EXCEPT !.choices = li_choices(Node(current_element).items),
                         !.correct_answers = li_correct(Node(current_element).items),
                         !.stop = current_element]
        ELSE IF Node(current_element).name = "p"
        THEN IF strong_or_b(current_element) = None
             THEN forward_scan(Tail(siblings), acc)
             ELSE IF begins_question(current_element)
             THEN [acc EXCEPT !.stop = current_element]
             ELSE forward_scan(Tail(siblings),
                      [acc EXCEPT !.question_parts =
                          Append(@, clean_text(Node(strong_or_b(current_element)).text))])
        ELSE IF Node(current_element).name = "pre"
        THEN forward_scan(Tail(siblings),
                 [acc EXCEPT !.pre_content = capture_pre(@, Node(current_element).text),
                             !.pres = Append(@, current_element)])
        ELSE forward_scan(Tail(siblings), acc)

scan_of(element, question_text) ==
    forward_scan(next_sibling_tags(element),
                 [choices |-> <<>>, correct_answers |-> <<>>,
                  question_parts |-> <<question_text>>, pre_content |-> <<>>,
                  stop |-> None, pres |-> <<>>])

combined_parts(question_parts) ==
    [k \in 1..Len(question_parts) |->
        IF bare_ordinal(question_parts[k]) THEN RStrip(question_parts[k])
        ELSE question_parts[k]]

\* the value of question_data['question'] after "Combine all question parts"
question_of(element, question_text, question_parts) ==
    IF Len(question_parts) > 1
    THEN JoinWith(combined_parts(question_parts), <<" ">>)
    ELSE IF /\ bare_ordinal(question_text)
            /\ Node(element).name \in Emphasis
            /\ next_sibling(element) # None
            /\ Node(next_sibling(element)).name \in Emphasis
    THEN RStrip(question_text) \o <<" ">> \o clean_text(Node(next_sibling(element)).text)
    ELSE question_text

is_special_question(question_text) == ContainsAny(Lower(question_text), SpecialKeywords)

missed_special(question_text) == ContainsAny(Lower(question_text), FallbackKeywords)

Field(key, present, value) == IF present THEN key :> value ELSE <<>>

\* answer_fields with "len(correct_answers) >= 1" deciding the list form
answer_fields_list_from_one(question_text, correct_answers) ==
    IF Len(correct_answers) >= 1 THEN [answer |-> List(correct_answers)]
    ELSE IF missed_special(question_text)
    THEN [type |-> "special", answer |-> Str(SeeImage)]
    ELSE [answer |-> Str(Unknown)]

\* answer_fields without the final "else" that sets the Unknown sentinel
answer_fields_no_unknown(question_text, correct_answers) ==
    IF Len(correct_answers) = 1 THEN [answer |-> Str(correct_answers[1])]
    ELSE IF Len(correct_answers) > 1 THEN [answer |-> List(correct_answers)]
    ELSE IF missed_special(question_text)
    THEN [type |-> "special", answer |-> Str(SeeImage)]
    ELSE <<>>

\* the branch "elif choices": the keys set from the number of correct answers
answer_fields(question_text, correct_answers) ==
    IF Len(correct_answers) = 1 THEN [answer |-> Str(correct_answers[1])]
    ELSE IF Len(correct_answers) > 1 THEN [answer |-> List(correct_answers)]
    ELSE IF missed_special(question_text)
    THEN [type |-> "special", answer |-> Str(SeeImage)]
    ELSE [answer |-> Str(Unknown)]

\* whether the iteration appends a record
appends(question_text, scan) == is_special_question(question_text) \/ scan.choices # <<>>

\* question_data as appended to questions
question_data(elements, idx, question_text, scan) ==
    LET element == elements[idx + 1]
        head == [question |-> question_of(element, question_text, scan.question_parts)]
                @@ Field("img", img_of(elements, idx) # "", img_of(elements, idx))
                @@ Field("pre", scan.pre_content # <<>>, scan.pre_content)
    IN IF is_special_question(question_text)
       THEN head @@ [type |-> "special", choices |-> <<>>, answer |-> Str(SeeImage)]
       ELSE head @@ [choices |-> scan.choices]
                 @@ answer_fields(question_text, scan.correct_answers)

-----------------------------------------------------------------------------
(* Input documents *)

FullOrdinal == <<"1", ".", " ", "w">>

BareOrdinal == <<"5", ".">>

Word == <<"w">>

MatchOrdinal == <<"2", ".", "\n", " ", "Match">>

OrderOrdinal == <<"1", ".", " ", "order">>

MatchWord == <<"Match", " ", "w">>

Question(text) == P(<<Em("strong", text)>>)

\* questions, continuation paragraphs and choice lists
ChoiceNodes ==
    { Question(FullOrdinal), Question(MatchOrdinal), Question(OrderOrdinal),
      Question(MatchWord), Question(BareOrdinal), Question(<<>>),
      Em("b", FullOrdinal),
      Ul(<<Li(<<"a">>, FALSE, FALSE)>>),
      Ul(<<Li(<<"a">>, TRUE, FALSE), Li(<<" ", "b", " ", " ", "c">>, FALSE, TRUE)>>),
      Ul(<<Li(<<"&nbsp;">>, FALSE, FALSE), Li(<<"b">>, FALSE, TRUE), Li(<<"a">>, FALSE, FALSE)>>),
      Ul(<<Li(<<"\n">>, TRUE, FALSE)>>),
      Div }

\* paragraphs, emphasis elements outside paragraphs, and images
AnchorNodes ==
    { Question(FullOrdinal), Question(BareOrdinal),
      P(<<Img("a.png")>>),
      P(<<Em("b", FullOrdinal), Em("strong", BareOrdinal), Em("strong", Word), Img("")>>),
      P(<<Em("strong", MatchOrdinal), Img("b.png")>>),
      Em("strong", MatchOrdinal), Em("strong", BareOrdinal), Em("b", Word),
      Ul(<<Li(<<"a">>, TRUE, FALSE)>>),
      TextNode }

\* preformatted blocks between a question and its list
PreNodes ==
    { Question(FullOrdinal), Question(MatchOrdinal), Question(Word),
      Pre(<<" ", "\n", "NBSP">>),
      Pre(<<" ", "x", "\n", "\n", "y", " ", "x", " ">>),
      Pre(<<"y">>),
      Ul(<<Li(<<"a">>, FALSE, TRUE)>>),
      Img("a.png") }

DocsOver(nodes) == UNION {[1..n -> nodes] : n \in 0..MaxLen}

Docs == DocsOver(ChoiceNodes) \cup DocsOver(AnchorNodes) \cup DocsOver(PreNodes)

-----------------------------------------------------------------------------
(* extract_quiz_data *)

Init ==
    /\ doc \in Docs
    /\ pc = "discover"
    /\ all_elements = <<>>
    /\ i = 0
    /\ questions = <<>>
    /\ scans = <<>>

\* lines 63-91: the anchors to iterate
Discover ==
    /\ pc = "discover"
    /\ all_elements' = combined_elements
    /\ pc' = "loop"
    /\ UNCHANGED <<doc, i, questions, scans>>

\* one iteration of "while i < len(all_elements)" that appends no record
SkipElement ==
    /\ pc = "loop"
    /\ i < Len(all_elements)
    /\ LET element == all_elements[i + 1]
           question_tag == question_tag_of(element)
       IN \/ ~is_question(question_tag)
          \/ /\ is_question(question_tag)
             /\ ~appends(clean_text(Node(question_tag).text),
                         scan_of(element, clean_text(Node(question_tag).text)))
    /\ i' = i + 1
    /\ UNCHANGED <<doc, pc, all_elements, questions, scans>>

\* one iteration of "while i < len(all_elements)" that appends a record
AppendQuestion ==
    /\ pc = "loop"
    /\ i < Len(all_elements)
    /\ LET element == all_elements[i + 1]
           question_tag == question_tag_of(element)
           question_text == clean_text(Node(question_tag).text)
           scan == scan_of(element, question_text)
       IN /\ is_question(question_tag)
          /\ appends(question_text, scan)
          /\ questions' = Append(questions,
                                 question_data(all_elements, i, question_text, scan))
          /\ scans' = Append(scans, [element |-> element, question_text |-> question_text,
                                     correct_answers |-> scan.correct_answers,
                                     stop |-> scan.stop, pres |-> scan.pres])
    /\ i' = i + 1
    /\ UNCHANGED <<doc, pc, all_elements>>

\* "return questions"
Return ==
    /\ pc = "loop"
    /\ i >= Len(all_elements)
    /\ pc' = "done"
    /\ UNCHANGED <<doc, all_elements, i, questions, scans>>

Next == Discover \/ SkipElement \/ AppendQuestion \/ Return

Spec == Init /\ [][Next]_vars

-----------------------------------------------------------------------------
(* Properties of the emitted records *)

Records == 1..Len(questions)

HasKey(r, key) == key \in DOMAIN r

IsSpecial(r) == HasKey(r, "type") /\ r.type = "special"

IsSentinel(answer) == answer = Str(Unknown) \/ answer = Str(SeeImage)

MatchedList(k) == scans[k].stop # None /\ Node(scans[k].stop).name = "ul"

ListItems(k) == IF MatchedList(k) THEN Node(scans[k].stop).items ELSE <<>>

\* the normalized texts of the items of the matched list, in list order
ItemTexts(k) == [n \in 1..Len(ListItems(k)) |-> clean_text(ListItems(k)[n].text)]

NonEmptyItemTexts(k) == SelectSeq(ItemTexts(k), NonEmptyText)

MarkedItem(li) == (li.colored \/ li.cls) /\ clean_text(li.text) # <<>>

\* the normalized texts of the items that carry a correct-answer marker
MarkedTexts(k) ==
    LET marked == SelectSeq(ListItems(k), MarkedItem)
    IN [n \in 1..Len(marked) |-> clean_text(marked[n].text)]

MarkersFound(k) == Len(MarkedTexts(k))

KeywordMatched(k) ==
    \/ ContainsAny(Lower(scans[k].question_text), SpecialKeywords)
    \/ ContainsAny(Lower(scans[k].question_text), FallbackKeywords)

PrimarySpecial(k) == ContainsAny(Lower(scans[k].question_text), SpecialKeywords)

\* C1: a record whose emitted question text contains a special marker
\* (case-insensitively) has type special, no choices and the image sentinel.
C1_SpecialTypeLaw ==
    \A k \in Records :
        ContainsAny(Lower(questions[k].question), SpecialKeywords)
            => /\ IsSpecial(questions[k])
               /\ questions[k].choices = <<>>
               /\ questions[k].answer = Str(SeeImage)

\* C2 as stated: for every record the answer is a single string iff exactly one
\* marker was found, a list iff more than one, and Unknown iff none was found
\* and no special keyword matched.
C2_CardinalityLaw ==
    \A k \in Records :
        LET answer == questions[k].answer IN
            /\ (answer.type = "str" /\ ~IsSentinel(answer)) <=> MarkersFound(k) = 1
            /\ answer.type = "list" <=> MarkersFound(k) > 1
            /\ answer = Str(Unknown) <=> (MarkersFound(k) = 0 /\ ~KeywordMatched(k))

\* C2 amended: for every record that is not special, the answer is the marked
\* item's text when exactly one marker was found, the list of the marked
\* items' texts when more than one was found (and a list only then), and
\* Unknown when none was found.
C2_CardinalityOfPlainRecords ==
    \A k \in Records :
        ~IsSpecial(questions[k]) =>
            LET answer == questions[k].answer IN
                /\ MarkersFound(k) = 1 => answer = Str(MarkedTexts(k)[1])
                /\ MarkersFound(k) > 1 => answer = List(MarkedTexts(k))
                /\ MarkersFound(k) = 0 => answer = Str(Unknown)
                /\ answer.type = "list" <=> MarkersFound(k) > 1

C2_Witness ==
    /\ pc = "done"
    /\ \E k \in Records :
           /\ ~IsSpecial(questions[k])
           /\ MarkersFound(k) = 2
           /\ questions[k].answer.type = "list"
    /\ \E k \in Records : IsSpecial(questions[k]) /\ MarkersFound(k) > 0

\* C3 as stated: every record whose scan matched a list has as choices the
\* non-empty normalized texts of that list's items, in list order.
C3_ChoicesRoundTrip ==
    \A k \in Records : MatchedList(k) => questions[k].choices = NonEmptyItemTexts(k)

\* C3 amended: every record whose scan matched a list and whose question-tag
\* text contains none of the four special markers has as choices the non-empty
\* normalized texts of that list's items, in list order.
C3_ChoicesOfUnmarkedQuestions ==
    \A k \in Records :
        (MatchedList(k) /\ ~PrimarySpecial(k))
            => questions[k].choices = NonEmptyItemTexts(k)

C3_Witness ==
    \E k \in Records :
        /\ MatchedList(k)
        /\ ~PrimarySpecial(k)
        /\ Len(questions[k].choices) = 2
        /\ Len(ListItems(k)) = 3

IsText(v) == v # <<>> /\ \A n \in 1..Len(v) : v[n] \notin WhiteSpace \/ v[n] = " "

\* C4: every record has a non-empty normalized question and an answer that is
\* a non-empty normalized string (a choice text or a sentinel) or a non-empty
\* list of such strings; no record lacks the answer key.
C4_QuestionAndAnswerSet ==
    \A k \in Records :
        /\ clean_text(questions[k].question) # <<>>
        /\ HasKey(questions[k], "answer")
        /\ \/ /\ questions[k].answer.type = "str"
              /\ IsText(questions[k].answer.value)
           \/ /\ questions[k].answer.type = "list"
              /\ Len(questions[k].answer.value) > 0
              /\ \A n \in 1..Len(questions[k].answer.value) :
                     IsText(questions[k].answer.value[n])

C4_Witness ==
    /\ pc = "done"
    /\ \E k \in Records : questions[k].answer.type = "list"
    /\ \E k \in Records : questions[k].answer = Str(SeeImage)

\* the position of an element in the document
DocBefore(a, b) == a.top < b.top \/ (a.top = b.top /\ a.kid < b.kid)

\* a bare-ordinal emphasis element outside any paragraph, immediately followed
\* by a sibling emphasis element, then by a list with a non-empty item
SplitQuestionAt(k) ==
    /\ k + 2 <= Len(doc)
    /\ doc[k].name \in Emphasis
    /\ bare_ordinal(Strip(doc[k].text))
    /\ doc[k + 1].name \in Emphasis
    /\ doc[k + 2].name = "ul"
    /\ \E n \in 1..Len(doc[k + 2].items) : clean_text(doc[k + 2].items[n].text) # <<>>

\* C5: a bare-ordinal emphasis element with no paragraph ancestor, followed by
\* a sibling emphasis element with text T and then a non-empty list, is an
\* anchor and yields a record whose question is "N. " followed by normalized T.
C5_BareOrdinalSplitQuestion ==
    pc = "done" =>
        \A k \in 1..Len(doc) :
            SplitQuestionAt(k) =>
                /\ \E n \in 1..Len(all_elements) : all_elements[n] = Ref(k, 0)
                /\ \E r \in Records :
                       /\ scans[r].element = Ref(k, 0)
                       /\ questions[r].question =
                              clean_text(doc[k].text) \o <<" ">> \o clean_text(doc[k + 1].text)

\* C6: the anchors are iterated in document order, and so the records appear
\* in the order of their anchors in the source.
C6_DocumentOrder ==
    /\ \A a, b \in 1..Len(all_elements) :
           a < b => DocBefore(all_elements[a], all_elements[b])
    /\ \A a, b \in Records :
           a < b => DocBefore(scans[a].element, scans[b].element)

\* C7: when the scan reached preformatted blocks, pre comes from the first of
\* them only: its lines trimmed, the empty ones dropped, joined by newlines.
C7_FirstPreOnly ==
    \A k \in Records :
        scans[k].pres # <<>> =>
            IF HasKey(questions[k], "pre")
            THEN questions[k].pre = PreText(Node(scans[k].pres[1]).text)
            ELSE PreText(Node(scans[k].pres[1]).text) = <<>>

RECURSIVE SortByPosition(_)
SortByPosition(S) ==
    IF S = {} THEN <<>>
    ELSE LET first == CHOOSE e \in S : \A f \in S \ {e} : DocBefore(e, f)
         IN <<first>> \o SortByPosition(S \ {first})

\* the paragraphs and standalone anchors merged by position in the document
MergedElements == SortByPosition({all_elements[n] : n \in 1..Len(all_elements)})

\* the src of the first image with a non-empty src inside an element, or ""
ImageIn(e) ==
    IF Node(e).name # "p" THEN ""
    ELSE LET imgs == SelectSeq(p_find_all(e, {"img"}), LAMBDA g : Node(g).src # "")
         IN IF imgs = <<>> THEN "" ELSE Node(imgs[1]).src

\* the image the two elements after position n of the merged sequence offer
ImageAfter(n) ==
    IF n + 1 <= Len(MergedElements) /\ ImageIn(MergedElements[n + 1]) # ""
    THEN ImageIn(MergedElements[n + 1])
    ELSE IF n + 2 <= Len(MergedElements)
    THEN ImageIn(MergedElements[n + 2])
    ELSE ""

ExpectedImage(e) ==
    IF ImageIn(e) # "" THEN ImageIn(e)
    ELSE LET n == CHOOSE n \in 1..Len(MergedElements) : MergedElements[n] = e
         IN ImageAfter(n)

\* C8: img is the anchor's own image, else the first image of the two
\* elements that follow the anchor in the merged document order, else absent.
C8_ImageAssociation ==
    \A k \in Records :
        IF HasKey(questions[k], "img")
        THEN questions[k].img = ExpectedImage(scans[k].element)
        ELSE ExpectedImage(scans[k].element) = ""

\* C9: every record of type special has no choices and the image sentinel.
C9_SpecialHasNoChoices ==
    \A k \in Records :
        IsSpecial(questions[k]) =>
            /\ questions[k].choices = <<>>
            /\ questions[k].answer = Str(SeeImage)

\* C10: two distinct anchors that both emit non-empty choices stopped their
\* scans at different lists.
C10_ListBelongsToOneQuestion ==
    \A a, b \in Records :
        (a # b /\ questions[a].choices # <<>> /\ questions[b].choices # <<>>)
            => scans[a].stop # scans[b].stop

====
